---- MODULE Spec2Model ----
(***************************************************************************)
(* Pitch Arena: the persistence store (pitches, ai_feedback, votes), the   *)
(* generate-pitch-feedback edge function and the voting screens.           *)
(*                                                                         *)
(* The store is modelled as sets of rows with the constraints of the       *)
(* schema migration (UNIQUE, CHECK, row-level policies).  An invocation of *)
(* the edge function is a process whose steps are the intervals between    *)
(* its awaits, so that concurrent invocations interleave at the store.     *)
(***************************************************************************)
EXTENDS Integers, Sequences, FiniteSets, TLC

(* ------------------------------------------------------------------ *)
(* Bounds of the model                                                  *)
(* ------------------------------------------------------------------ *)
MaxPitchIds == 2
MaxInvocations == 2
MaxSessions == 2
MaxVotePitches == 1
MaxClicks == 1
MaxFormSessions == 1

PitchIds == 1..MaxPitchIds
Invocations == 1..MaxInvocations
Sessions == 1..MaxSessions
VotePitchIds == 1..MaxVotePitches
Users == {"u1", "u2"}

NULL == "null"
Undefined == 0
Timestamp == "ts"

(* ------------------------------------------------------------------ *)
(* State                                                                *)
(* ------------------------------------------------------------------ *)
VARIABLES
  pitches,        \* table pitches: a set of rows
  ai_feedback,    \* table ai_feedback: a set of rows
  votes,          \* table votes: a set of rows
  profiles,       \* table profiles: the ids of its rows
  openaiApiKey,   \* Deno.env OPENAI_API_KEY is configured
  inv,            \* the invocations of the edge function
  session,        \* the signed-in user of each browser session
  feed,           \* the DiscoverFeed component of each session
  detail,         \* the PitchDetailView component of each session
  form,           \* the PitchSubmissionForm of the entrepreneur's browser
  screen,         \* the SubmissionSuccessScreen of the entrepreneur's browser
  dash,           \* the EntrepreneurDashboard of the entrepreneur's browser
  board,          \* the Leaderboard component
  clicks          \* history: the submit and retry clicks made so far

vars == <<pitches, ai_feedback, votes, profiles, openaiApiKey, inv, session, feed, detail,
          form, screen, dash, board, clicks>>
storeVars == <<pitches, ai_feedback, votes, profiles>>
endpointVars == <<openaiApiKey, inv>>
clientVars == <<session, feed, detail>>
uiVars == <<form, screen, dash, board, clicks>>

(* ------------------------------------------------------------------ *)
(* Schema                                                               *)
(* ------------------------------------------------------------------ *)
PitchOwner(id) == IF id = 1 THEN "u1" ELSE "u2"

\* a row of pitches as the submission form writes it; the AI columns take
\* their defaults
NewPitchRow(id, status) ==
  [ id |-> id,
    user_id |-> PitchOwner(id),
    title |-> "title",
    target_audience |-> "audience",
    pain_point |-> "pain",
    product_description |-> "product",
    elevator_pitch |-> 250,        \* a text, by the number of its words
    status |-> status,
    created_at |-> Timestamp,
    ai_processing_status |-> "pending",
    ai_processing_started_at |-> NULL,
    ai_processing_completed_at |-> NULL,
    ai_processing_error |-> NULL ]

AiStatusCheck(s) == s \in {"pending", "processing", "completed", "failed"}

OverallScoreCheck(score) == score >= 1 /\ score <= 10

PitchRow(id) == CHOOSE r \in pitches : r.id = id

PitchExists(id) == \E r \in pitches : r.id = id

FeedbackRows(id) == {f \in ai_feedback : f.pitch_id = id}


(* ------------------------------------------------------------------ *)
(* Store operations                                                     *)
(* ------------------------------------------------------------------ *)

\* mutant: the update written as an upsert, which adds the row it misses
UpsertEqId(rows, id, patch) ==
  IF \E r \in rows : r.id = id
    THEN { IF r.id = id
             THEN [c \in DOMAIN r |-> IF c \in DOMAIN patch THEN patch[c] ELSE r[c]]
             ELSE r : r \in rows }
    ELSE rows \cup { [c \in DOMAIN NewPitchRow(id, "draft") |->
                       IF c \in DOMAIN patch THEN patch[c]
                       ELSE NewPitchRow(id, "draft")[c]] }

\* mutant: the update without its filter eq('id', id)
UpdateEveryRow(rows, id, patch) ==
  { [c \in DOMAIN r |-> IF c \in DOMAIN patch THEN patch[c] ELSE r[c]] : r \in rows }

\* supabase.from(table).update(patch).eq('id', id): every row whose id
\* matches takes the patched columns; no row matching is not an error
UpdateEqId(rows, id, patch) ==
  { IF r.id = id
      THEN [c \in DOMAIN r |-> IF c \in DOMAIN patch THEN patch[c] ELSE r[c]]
      ELSE r : r \in rows }

\* mutant: the table without UNIQUE(pitch_id)
FeedbackInsertErrorNoUnique(rows, row) ==
  IF ~PitchExists(row.pitch_id) THEN "violates foreign key constraint"
  ELSE IF ~OverallScoreCheck(row.overall_score) THEN "violates check constraint"
  ELSE NULL

\* the error of an insert into ai_feedback, NULL when the row is accepted:
\* pitch_id REFERENCES pitches(id), CHECK on overall_score, UNIQUE(pitch_id)
FeedbackInsertError(rows, row) ==
  IF ~PitchExists(row.pitch_id) THEN "violates foreign key constraint"
  ELSE IF ~OverallScoreCheck(row.overall_score) THEN "violates check constraint"
  ELSE IF \E f \in rows : f.pitch_id = row.pitch_id
    THEN "duplicate key value violates unique constraint"
  ELSE NULL

\* id uuid PRIMARY KEY DEFAULT gen_random_uuid(): a value no row carries
FreshId(rows) == Cardinality(rows) + 1

\* mutant: the insert written as an upsert on pitch_id
FeedbackUpsert(rows, row) ==
  IF PitchExists(row.pitch_id) /\ OverallScoreCheck(row.overall_score)
    THEN {f \in rows : f.pitch_id # row.pitch_id}
           \cup {[id |-> FreshId(rows)] @@ row}
    ELSE rows

\* the table after supabase.from('ai_feedback').insert(row)
FeedbackInsert(rows, row) ==
  IF FeedbackInsertError(rows, row) = NULL
    THEN rows \cup {[id |-> FreshId(rows)] @@ row}
    ELSE rows

(* ------------------------------------------------------------------ *)
(* Migration add_ai_processing_status: the backfill of existing rows   *)
(* ------------------------------------------------------------------ *)
\* mutant: the first UPDATE without its EXISTS clause
BackfillWithoutExists(rows, feedback) ==
  { IF r.status = "published" /\ r.ai_processing_status = "pending"
      THEN [r EXCEPT !.ai_processing_status = "completed",
                     !.ai_processing_completed_at = r.created_at]
      ELSE r : r \in rows }

Backfill(rows, feedback) ==
  LET hasFeedback(r) == \E f \in feedback : f.pitch_id = r.id
      first(r) ==
        IF r.status = "published" /\ hasFeedback(r) /\ r.ai_processing_status = "pending"
          THEN [r EXCEPT !.ai_processing_status = "completed",
                         !.ai_processing_completed_at = r.created_at]
          ELSE r
      second(r) ==
        IF r.status = "published" /\ ~hasFeedback(r) /\ r.ai_processing_status = "pending"
          THEN [r EXCEPT !.ai_processing_status = "failed",
                         !.ai_processing_error =
                           "AI feedback generation was not completed. Please retry."]
          ELSE r
  IN { second(first(r)) : r \in rows }

(* ------------------------------------------------------------------ *)
(* Edge function generate-pitch-feedback                                *)
(* ------------------------------------------------------------------ *)
mockFeedback ==
  [ strengths |-> << "Clear problem identification and target audience definition",
                     "Well-articulated value proposition",
                     "Demonstrates understanding of market need" >>,
    weaknesses |-> << "Could benefit from more specific metrics and data",
                      "Competitive landscape analysis is limited",
                      "Monetization strategy could be more detailed" >>,
    recommendations |-> << "Include market size data and growth projections",
                           "Add more details about competitive advantages",
                           "Clarify go-to-market strategy and customer acquisition plan" >>,
    overall_score |-> 7 ]

\* what JSON.parse of the model's answer can yield: a well-formed object,
\* one of them with a score the table's CHECK refuses
AiAnswer(score) ==
  [ strengths |-> <<"s1", "s2", "s3">>,
    weaknesses |-> <<"w1", "w2", "w3">>,
    recommendations |-> <<"r1", "r2">>,
    overall_score |-> score ]

AiAnswers == { AiAnswer(8), AiAnswer(11) }

\* the ways the call of the AI API and the reading of its answer throw
AiFailures ==
  { "OpenAI API error: 500", "fetch failed", "Unexpected token in JSON" }

NoFeedback == [ overall_score |-> 0 ]

IdleInvocation ==
  [ pc |-> "idle", pitch_id |-> Undefined, feedback |-> NoFeedback,
    error |-> NULL, response |-> 0,
    \* history: what the store held when the invocation began
    startStatus |-> NULL, startFeedback |-> FALSE ]

Responded(status) == [IdleInvocation EXCEPT !.pc = "done", !.response = status]

\* error.message || 'Failed to generate feedback'
ErrorMessage(message) ==
  IF message = "" \/ message = NULL THEN "Failed to generate feedback" ELSE message

ProcessingPatch ==
  [ ai_processing_status |-> "processing", ai_processing_started_at |-> Timestamp ]

\* lines 33-52: the body is read and the pitch id required (400 without
\* one); the pitch is set to processing
Begin(i, body) ==
  /\ inv[i].pc = "idle"
  /\ \A j \in Invocations : j < i => inv[j].pc # "idle"
  /\ IF body = Undefined
       THEN /\ inv' = [inv EXCEPT ![i] = Responded(400)]
            /\ pitches' = pitches
       ELSE /\ inv' = [inv EXCEPT ![i] =
                 [ @ EXCEPT
                     !.pitch_id = body,
                     !.pc = "select",
                     !.startStatus = IF PitchExists(body)
                                       THEN PitchRow(body).ai_processing_status ELSE NULL,
                     !.startFeedback = FeedbackRows(body) # {} ]]
            /\ pitches' = UpdateEqId(pitches, body, ProcessingPatch)

\* a request of any client of the endpoint
Start(i, body) ==
  /\ Begin(i, body)
  /\ UNCHANGED <<profiles, uiVars, ai_feedback, votes, openaiApiKey, clientVars>>

\* mutant: the missing credential is an error, as the README has it
GenerateRequiresKey(i) ==
  /\ inv[i].pc = "select"
  /\ IF ~PitchExists(inv[i].pitch_id)
       THEN inv' = [inv EXCEPT ![i] = Responded(404)]
       ELSE IF ~openaiApiKey
         THEN inv' = [inv EXCEPT ![i].pc = "catch",
                                 ![i].error = "OpenAI API key not configured"]
         ELSE \/ \E answer \in AiAnswers :
                   inv' = [inv EXCEPT ![i].pc = "insert", ![i].feedback = answer]
              \/ \E failure \in AiFailures :
                   inv' = [inv EXCEPT ![i].pc = "catch", ![i].error = failure]
  /\ UNCHANGED <<uiVars, storeVars, openaiApiKey, clientVars>>

\* lines 54-172: the pitch is read back (404 when there is none); without
\* the AI credential the mock feedback is taken, with it the AI API is
\* called and its answer parsed
Generate(i) ==
  /\ inv[i].pc = "select"
  /\ IF ~PitchExists(inv[i].pitch_id)
       THEN inv' = [inv EXCEPT ![i] = Responded(404)]
       ELSE IF ~openaiApiKey
         THEN inv' = [inv EXCEPT ![i].pc = "insert", ![i].feedback = mockFeedback]
         ELSE \/ \E answer \in AiAnswers :
                   inv' = [inv EXCEPT ![i].pc = "insert", ![i].feedback = answer]
              \/ \E failure \in AiFailures :
                   inv' = [inv EXCEPT ![i].pc = "catch", ![i].error = failure]
  /\ UNCHANGED <<uiVars, storeVars, openaiApiKey, clientVars>>

\* lines 94-101 and 174-184: the feedback row is inserted; an insert error
\* is thrown
InsertFeedback(i) ==
  /\ inv[i].pc = "insert"
  /\ LET row == [pitch_id |-> inv[i].pitch_id] @@ inv[i].feedback
         insertError == FeedbackInsertError(ai_feedback, row)
     IN /\ ai_feedback' = FeedbackInsert(ai_feedback, row)
        /\ inv' = [inv EXCEPT ![i] =
             IF insertError # NULL
               THEN [@ EXCEPT !.pc = "catch", !.error = insertError,
                              !.feedback = NoFeedback]
               ELSE [@ EXCEPT !.pc = "complete", !.feedback = NoFeedback]]
  /\ UNCHANGED <<profiles, uiVars, pitches, votes, openaiApiKey, clientVars>>

\* mutant: the update that forgets to clear the error
CompletedPatchKeepsError ==
  [ ai_processing_status |-> "completed",
    ai_processing_completed_at |-> Timestamp ]

CompletedPatch ==
  [ ai_processing_status |-> "completed",
    ai_processing_completed_at |-> Timestamp,
    ai_processing_error |-> NULL ]

\* lines 103-118 and 186-201
SetCompleted(i) ==
  /\ inv[i].pc = "complete"
  /\ pitches' = UpdateEqId(pitches, inv[i].pitch_id, CompletedPatch)
  /\ inv' = [inv EXCEPT ![i] = Responded(200)]
  /\ UNCHANGED <<profiles, uiVars, ai_feedback, votes, openaiApiKey, clientVars>>

\* mutant: the update that forgets the error message
FailedPatchWithoutMessage(error) ==
  [ ai_processing_status |-> "failed",
    ai_processing_completed_at |-> Timestamp ]

FailedPatch(error) ==
  [ ai_processing_status |-> "failed",
    ai_processing_error |-> ErrorMessage(error),
    ai_processing_completed_at |-> Timestamp ]

\* mutant: the catch block that also removes the feedback of the pitch
CatchDeletesFeedback(i) ==
  /\ inv[i].pc = "catch"
  /\ pitches' = IF inv[i].pitch_id # Undefined
                  THEN UpdateEqId(pitches, inv[i].pitch_id, FailedPatch(inv[i].error))
                  ELSE pitches
  /\ ai_feedback' = {f \in ai_feedback : f.pitch_id # inv[i].pitch_id}
  /\ inv' = [inv EXCEPT ![i] = Responded(500)]
  /\ UNCHANGED <<profiles, uiVars, votes, openaiApiKey, clientVars>>

\* lines 202-232
Catch(i) ==
  /\ inv[i].pc = "catch"
  /\ pitches' = IF inv[i].pitch_id # Undefined
                  THEN UpdateEqId(pitches, inv[i].pitch_id, FailedPatch(inv[i].error))
                  ELSE pitches
  /\ inv' = [inv EXCEPT ![i] = Responded(500)]
  /\ UNCHANGED <<profiles, uiVars, ai_feedback, votes, openaiApiKey, clientVars>>

(* ------------------------------------------------------------------ *)
(* The store before any invocation                                      *)
(* ------------------------------------------------------------------ *)
\* Rows older than the migration add_ai_processing_status were written
\* without the AI columns, took the column defaults and went through its
\* backfill: a draft, with or without a feedback row (the backfill reads
\* published rows only), and a published pitch, with or without one.  A row
\* written after the migration is published and pending.
OldKinds == {"draft", "draft_with_feedback", "old_published", "old_with_feedback"}

KindOrder == << "absent", "new_published", "draft", "draft_with_feedback",
               "old_published", "old_with_feedback" >>

PitchKinds == { KindOrder[k] : k \in DOMAIN KindOrder }

\* The function ignores which id a row carries, so of the assignments of
\* kinds to ids that differ by a renaming of the ids one is taken.
Ordered(kind) ==
  LET rank(p) == CHOOSE k \in DOMAIN KindOrder : KindOrder[k] = kind[p]
  IN \A p, q \in PitchIds : p < q => rank(p) <= rank(q)

OldFeedbackRow(id) ==
  [ id |-> id, pitch_id |-> id ] @@ AiAnswer(8)

InitialFeedback(kind) ==
  { OldFeedbackRow(id) :
      id \in {p \in PitchIds : kind[p] \in {"draft_with_feedback", "old_with_feedback"}} }

InitialPitches(kind) ==
  LET old == { NewPitchRow(id, IF kind[id] \in {"draft", "draft_with_feedback"}
                                 THEN "draft" ELSE "published") :
                 id \in {p \in PitchIds : kind[p] \in OldKinds} }
      new == { NewPitchRow(id, "published") :
                 id \in {p \in PitchIds : kind[p] = "new_published"} }
  IN Backfill(old, InitialFeedback(kind)) \cup new

IdleFeed ==
  [ pc |-> "unmounted", votedIds |-> {}, pitches |-> <<>>, currentIndex |-> 0,
    voting |-> FALSE ]

\* useState<PitchDetail | null>(null)
NoPitch == [ user_id |-> NULL, user_vote |-> NULL, status |-> NULL,
             ai_feedback |-> FALSE ]

IdleDetail ==
  [ pc |-> "unmounted", pitchId |-> Undefined, pitch |-> NoPitch,
    voting |-> FALSE, retryingFeedback |-> FALSE, call |-> Undefined ]

(* ------------------------------------------------------------------ *)
(* The screens of the entrepreneur's browser before they are shown      *)
(* ------------------------------------------------------------------ *)
\* the signed-in user of the browser that shows the submission form, the
\* success screen and the dashboard
Entrepreneur == "u1"

\* useState<PitchFormData>({title: '', ...}): a field is its text, the
\* elevator pitch the number of words of its text
EmptyFormData ==
  [ title |-> "", target_audience |-> "", pain_point |-> "",
    product_description |-> "", elevator_pitch |-> 0 ]

\* the form: its state (step, loading, draftId, formData), the requests of
\* loadDraft and saveDraft still on their way (these outlive the form), the
\* position of handleSubmit and (history) how often the form was opened
IdleForm ==
  [ pc |-> "closed", opened |-> 0, step |-> 1, loading |-> FALSE, draftId |-> Undefined,
    formData |-> EmptyFormData, loadDraft |-> FALSE, saves |-> <<>>,
    submit |-> "none", submitId |-> Undefined, submitData |-> EmptyFormData,
    call |-> Undefined ]

\* the success screen: its state (aiStatus, pollingInterval), whether the
\* interval timer runs, the pollingInterval that checkAIStatus of the first
\* render closed over and (history) the parity of the status reads issued
IdleScreen ==
  [ pc |-> "unmounted", pitchId |-> Undefined, aiStatus |-> "pending",
    pollingInterval |-> NULL, timer |-> FALSE, closure |-> NULL,
    issued |-> 0 ]

\* the dashboard: its state (pitches, loading, retryingFeedback), the
\* loadPitches calls on their way, the invocation its retry waits for and
\* (history) the parity of the loads the effect and its interval issued
IdleDash ==
  [ pc |-> "unmounted", pitches |-> <<>>, loading |-> TRUE,
    retryingFeedback |-> Undefined, loads |-> 0, call |-> Undefined,
    issued |-> 0 ]

\* the leaderboard: useState([]), useState(true), useState('all')
IdleBoard ==
  [ pitches |-> <<>>, loading |-> TRUE, filter |-> "all" ]

UiIdle ==
  /\ form = IdleForm
  /\ screen = IdleScreen
  /\ dash = IdleDash
  /\ board = IdleBoard
  /\ clicks = 0

EndpointInit ==
  /\ \E kind \in [PitchIds -> PitchKinds] :
       /\ Ordered(kind)
       /\ pitches = InitialPitches(kind)
       /\ ai_feedback = InitialFeedback(kind)
  /\ votes = {}
  /\ profiles = Users
  /\ openaiApiKey \in BOOLEAN
  /\ inv = [i \in Invocations |-> IdleInvocation]
  /\ session = [s \in Sessions |-> "u1"]
  /\ feed = [s \in Sessions |-> IdleFeed]
  /\ detail = [s \in Sessions |-> IdleDetail]
  /\ UiIdle

EndpointNext ==
  \E i \in Invocations :
    \/ \E body \in PitchIds \cup {Undefined} : Start(i, body)
    \/ Generate(i)
    \/ InsertFeedback(i)
    \/ SetCompleted(i)
    \/ Catch(i)

EndpointSpec == EndpointInit /\ [][EndpointNext]_vars


(* ------------------------------------------------------------------ *)
(* The endpoint on a store whose reads can fail                         *)
(* ------------------------------------------------------------------ *)
\* lines 54-68: the select of the pitch returns an error for a pitch that
\* is there (pitchError is set): the handler answers 404 Pitch not found
SelectFails(i) ==
  /\ inv[i].pc = "select"
  /\ PitchExists(inv[i].pitch_id)
  /\ inv' = [inv EXCEPT ![i] = Responded(404)]
  /\ UNCHANGED <<uiVars, storeVars, openaiApiKey, clientVars>>

ReadFaultNext ==
  \E i \in Invocations :
    \/ \E body \in PitchIds \cup {Undefined} : Start(i, body)
    \/ Generate(i)
    \/ SelectFails(i)
    \/ InsertFeedback(i)
    \/ SetCompleted(i)
    \/ Catch(i)

ReadFaultSpec == EndpointInit /\ [][ReadFaultNext]_vars

(* ------------------------------------------------------------------ *)
(* Table votes: UNIQUE(pitch_id, user_id), CHECK on vote_type and the   *)
(* row-level policies of the authenticated role                         *)
(* ------------------------------------------------------------------ *)
VoteTypes == {"interesting", "needs_work"}

\* mutant: the policy without its NOT EXISTS clause
VoteInsertPolicyOwnRows(uid, row) == uid = row.user_id

\* policy "Users can insert votes on others' pitches"
VoteInsertPolicy(uid, row) ==
  /\ uid = row.user_id
  /\ ~\E p \in pitches : p.id = row.pitch_id /\ p.user_id = uid

\* mutant: the table without UNIQUE(pitch_id, user_id)
VoteInsertErrorNoUnique(rows, uid, row) ==
  IF ~VoteInsertPolicy(uid, row) THEN "new row violates row-level security policy"
  ELSE IF row.vote_type \notin VoteTypes THEN "violates check constraint"
  ELSE IF ~PitchExists(row.pitch_id) \/ row.user_id \notin profiles
    THEN "violates foreign key constraint"
  ELSE NULL

\* the error of an insert into votes by user uid, NULL when the row is
\* accepted
VoteInsertError(rows, uid, row) ==
  IF ~VoteInsertPolicy(uid, row) THEN "new row violates row-level security policy"
  ELSE IF row.vote_type \notin VoteTypes THEN "violates check constraint"
  ELSE IF \E v \in rows : v.pitch_id = row.pitch_id /\ v.user_id = row.user_id
    THEN "duplicate key value violates unique constraint"
  ELSE IF ~PitchExists(row.pitch_id) \/ row.user_id \notin profiles
    THEN "violates foreign key constraint"
  ELSE NULL

\* the table after supabase.from('votes').insert(row) by user uid
VoteInsert(rows, uid, row) ==
  IF VoteInsertError(rows, uid, row) = NULL
    THEN rows \cup {[id |-> FreshId(rows)] @@ row}
    ELSE rows

\* the table after update({vote_type}).eq('pitch_id', ..).eq('user_id', ..)
\* by user uid, under the policy "Users can update own votes"
VoteUpdate(rows, uid, pitch_id, user_id, vote_type) ==
  { IF v.pitch_id = pitch_id /\ v.user_id = user_id /\ v.user_id = uid
      THEN [v EXCEPT !.vote_type = vote_type]
      ELSE v : v \in rows }

\* the pitches a select by user uid returns: policies "Users can view
\* published pitches" and "Users can view own drafts"
VisiblePitches(uid) ==
  {p \in pitches : p.status = "published" \/ p.user_id = uid}

\* pitches.user_id REFERENCES profiles(id) ON DELETE CASCADE: the pitches
\* left when the profile uid is deleted
PitchesWithoutProfile(rows, uid) == {p \in rows : p.user_id # uid}

\* ai_feedback.pitch_id REFERENCES pitches(id) ON DELETE CASCADE: the
\* feedback rows of the pitches that are left
FeedbackOfPitches(rows, left) ==
  {f \in rows : \E p \in left : p.id = f.pitch_id}

\* mutant: votes.user_id without its reference to profiles
VotesOfPitchesAnyVoter(rows, left, uid) ==
  {v \in rows : \E p \in left : p.id = v.pitch_id}

\* votes.pitch_id REFERENCES pitches(id) ON DELETE CASCADE and votes.user_id
\* REFERENCES profiles(id) ON DELETE CASCADE: the votes on the pitches that
\* are left, less those of the deleted profile
VotesOfPitches(rows, left, uid) ==
  {v \in rows : v.user_id # uid /\ \E p \in left : p.id = v.pitch_id}

\* profiles.id REFERENCES auth.users ON DELETE CASCADE: the user uid is
\* deleted, and with it the profile and what refers to it
DeleteProfile(uid) ==
  /\ uid \in profiles
  /\ profiles' = profiles \ {uid}
  /\ pitches' = PitchesWithoutProfile(pitches, uid)
  /\ ai_feedback' = FeedbackOfPitches(ai_feedback, PitchesWithoutProfile(pitches, uid))
  /\ votes' = VotesOfPitches(votes, PitchesWithoutProfile(pitches, uid), uid)
  /\ UNCHANGED <<endpointVars, clientVars, uiVars>>

(* ------------------------------------------------------------------ *)
(* DiscoverFeed                                                         *)
(* ------------------------------------------------------------------ *)
FeedLimit == 20

\* the ids of a set of rows, latest first (rows are created in id order)
RECURSIVE LatestFirst(_)
LatestFirst(ids) ==
  IF ids = {} THEN <<>>
  ELSE LET top == CHOOSE x \in ids : \A y \in ids : y <= x
       IN <<top>> \o LatestFirst(ids \ {top})

Take(seq, n) == SubSeq(seq, 1, IF Len(seq) < n THEN Len(seq) ELSE n)

SelectSeq2(seq, keep) ==
  LET F[k \in 0..Len(seq)] ==
        IF k = 0 THEN <<>>
        ELSE IF seq[k] \in keep THEN Append(F[k - 1], seq[k]) ELSE F[k - 1]
  IN F[Len(seq)]

\* lines 215-228: the feed is shown (the detail view, when open, covers
\* it) and reads the ids of the pitches the user has voted on
FeedMount(s) ==
  /\ feed[s].pc = "unmounted"
  /\ detail[s].pc = "unmounted"
  /\ feed' = [feed EXCEPT ![s] =
       [IdleFeed EXCEPT
          !.votedIds = {v.pitch_id : v \in {w \in votes : w.user_id = session[s]}},
          !.pc = "loadPitches"]]
  /\ UNCHANGED <<uiVars, storeVars, endpointVars, session, detail>>

\* mutant: loadPitches without its filter of the voted pitches
FeedLoadPitchesUnfiltered(s) ==
  /\ feed[s].pc = "loadPitches"
  /\ LET pitchData ==
           Take(LatestFirst({p.id : p \in {q \in VisiblePitches(session[s]) :
                                             /\ q.status = "published"
                                             /\ q.user_id # session[s]}}),
                FeedLimit)
     IN feed' = [feed EXCEPT ![s].pitches = pitchData,
                             ![s].votedIds = {},
                             ![s].pc = "ready"]
  /\ UNCHANGED <<uiVars, storeVars, endpointVars, session, detail>>

\* lines 230-273: the latest published pitches of other users, less the
\* voted ones
FeedLoadPitches(s) ==
  /\ feed[s].pc = "loadPitches"
  /\ LET pitchData ==
           Take(LatestFirst({p.id : p \in {q \in VisiblePitches(session[s]) :
                                             /\ q.status = "published"
                                             /\ q.user_id # session[s]}}),
                FeedLimit)
         unvoted == {p.id : p \in pitches} \ feed[s].votedIds
     IN feed' = [feed EXCEPT ![s].pitches = SelectSeq2(pitchData, unvoted),
                             ![s].votedIds = {},
                             ![s].pc = "ready"]
  /\ UNCHANGED <<uiVars, storeVars, endpointVars, session, detail>>

\* lines 275-301: a swipe or a button of the feed inserts the vote; on an
\* error the feed stays on the pitch, else the timer is started
FeedVote(s, voteType) ==
  /\ feed[s].pc = "ready"
  /\ detail[s].pc = "unmounted"
  /\ feed[s].currentIndex < Len(feed[s].pitches)
  /\ ~feed[s].voting
  /\ LET row == [ pitch_id |-> feed[s].pitches[feed[s].currentIndex + 1],
                  user_id |-> session[s],
                  vote_type |-> voteType ]
         error == VoteInsertError(votes, session[s], row)
     IN /\ votes' = VoteInsert(votes, session[s], row)
        /\ feed' = [feed EXCEPT ![s] =
             IF error # NULL
               THEN [@ EXCEPT !.voting = FALSE]
               ELSE [@ EXCEPT !.voting = TRUE, !.pc = "advance"]]
  /\ UNCHANGED <<profiles, uiVars, pitches, ai_feedback, endpointVars, session, detail>>

\* lines 292-296: the timer moves the feed to the next pitch
FeedAdvance(s) ==
  /\ feed[s].pc = "advance"
  /\ feed' = [feed EXCEPT ![s].currentIndex = @ + 1, ![s].voting = FALSE,
                          ![s].pc = "ready"]
  /\ UNCHANGED <<uiVars, storeVars, endpointVars, session, detail>>

\* the user leaves the feed for another view
FeedUnmount(s) ==
  /\ feed[s].pc = "ready"
  /\ detail[s].pc = "unmounted"
  /\ feed' = [feed EXCEPT ![s] = IdleFeed]
  /\ UNCHANGED <<uiVars, storeVars, endpointVars, session, detail>>

(* ------------------------------------------------------------------ *)
(* PitchDetailView                                                      *)
(* ------------------------------------------------------------------ *)
\* lines 77-130: the pitch and the user's vote on it as the store has them;
\* the view keeps what it had when the pitch cannot be read
loadPitchDetail(s, pitchId, pitch) ==
  LET uid == session[s]
      found == {p \in VisiblePitches(uid) : p.id = pitchId}
      userVote == {v \in votes : v.pitch_id = pitchId /\ v.user_id = uid}
  IN IF found = {} THEN pitch
     ELSE [ user_id |-> (CHOOSE p \in found : TRUE).user_id,
            user_vote |-> IF userVote = {} THEN NULL
                          ELSE (CHOOSE v \in userVote : TRUE).vote_type,
            status |-> (CHOOSE p \in found : TRUE).status,
            ai_feedback |-> FeedbackRows(pitchId) # {} ]

\* lines 46-48 and App.handleViewPitch: the view opens on a pitch and loads
DetailOpen(s, pitchId) ==
  /\ detail[s].pc = "unmounted"
  /\ detail' = [detail EXCEPT ![s] =
       [IdleDetail EXCEPT !.pc = "ready", !.pitchId = pitchId,
                          !.pitch = loadPitchDetail(s, pitchId, NoPitch)]]
  /\ UNCHANGED <<uiVars, storeVars, endpointVars, session, feed>>

\* lines 132-149 and 338-352: a vote button (the button of the vote the view
\* shows is disabled, and the buttons are absent on the user's own pitch):
\* an update when the view shows a vote of the user, an insert otherwise;
\* the result of neither is read
DetailVote(s, voteType) ==
  /\ detail[s].pc = "ready"
  /\ detail[s].pitch # NoPitch
  /\ detail[s].pitch.user_id # session[s]
  /\ ~detail[s].voting
  /\ detail[s].pitch.user_vote # voteType
  /\ votes' = IF detail[s].pitch.user_vote # NULL
                THEN VoteUpdate(votes, session[s], detail[s].pitchId, session[s],
                                voteType)
                ELSE VoteInsert(votes, session[s],
                                [ pitch_id |-> detail[s].pitchId,
                                  user_id |-> session[s],
                                  vote_type |-> voteType ])
  /\ detail' = [detail EXCEPT ![s].voting = TRUE, ![s].pc = "reload"]
  /\ UNCHANGED <<profiles, uiVars, pitches, ai_feedback, endpointVars, session, feed>>

\* lines 151-156: the view is loaded again and the buttons released
DetailReload(s) ==
  /\ detail[s].pc = "reload"
  /\ detail' = [detail EXCEPT
       ![s].pitch = loadPitchDetail(s, detail[s].pitchId, detail[s].pitch),
       ![s].pc = "ready", ![s].voting = FALSE]
  /\ UNCHANGED <<uiVars, storeVars, endpointVars, session, feed>>

\* lines 257-329: the button Generate AI Feedback, shown for a published
\* pitch without feedback while no retry runs; lines 50-61:
\* retryAIFeedback calls the endpoint
DetailRetry(s, i) ==
  /\ detail[s].pc = "ready"
  /\ detail[s].pitch # NoPitch
  /\ detail[s].pitch.status = "published"
  /\ ~detail[s].pitch.ai_feedback
  /\ ~detail[s].retryingFeedback
  /\ clicks < MaxClicks
  /\ clicks' = clicks + 1
  /\ Begin(i, detail[s].pitchId)
  /\ detail' = [detail EXCEPT ![s].retryingFeedback = TRUE, ![s].call = i]
  /\ UNCHANGED <<profiles, ai_feedback, votes, openaiApiKey, session, feed, form, screen, dash, board>>

\* lines 63-74: the endpoint has answered: on response.ok the view is
\* loaded again, otherwise an alert is shown; then the button is released
DetailRetryAnswer(s) ==
  /\ detail[s].call # Undefined
  /\ inv[detail[s].call].pc = "done"
  /\ detail' = [detail EXCEPT
       ![s].pitch = IF inv[detail[s].call].response = 200
                      THEN loadPitchDetail(s, detail[s].pitchId, detail[s].pitch)
                      ELSE @,
       ![s].retryingFeedback = FALSE,
       ![s].call = Undefined]
  /\ UNCHANGED <<uiVars, storeVars, endpointVars, session, feed>>

\* lines 69-74: the call of the endpoint fails: an alert is shown and the
\* button released
DetailRetryFails(s) ==
  /\ detail[s].call # Undefined
  /\ detail' = [detail EXCEPT ![s].retryingFeedback = FALSE,
                              ![s].call = Undefined]
  /\ UNCHANGED <<uiVars, storeVars, endpointVars, session, feed>>

\* App.handleCloseModal
DetailClose(s) ==
  /\ detail[s].pc = "ready"
  /\ detail' = [detail EXCEPT ![s] = IdleDetail]
  /\ UNCHANGED <<uiVars, storeVars, endpointVars, session, feed>>

(* ------------------------------------------------------------------ *)
(* The voting screens over a store of pitches                           *)
(* ------------------------------------------------------------------ *)
\* sessions are interchangeable: of the assignments of users to sessions
\* that differ by a renaming of the sessions one is taken
VoteInit ==
  /\ \E status \in [VotePitchIds -> {"draft", "published"}] :
       pitches = { [NewPitchRow(id, status[id]) EXCEPT
                      !.ai_processing_status = "failed"] : id \in VotePitchIds }
  /\ ai_feedback = {}
  /\ votes = {}
  /\ profiles = Users
  /\ openaiApiKey = TRUE
  /\ inv = [i \in Invocations |-> IdleInvocation]
  /\ session \in [Sessions -> Users]
  /\ \A s, t \in Sessions :
       s < t => (session[s] = "u1" \/ session[t] = "u2")
  /\ feed = [s \in Sessions |-> IdleFeed]
  /\ detail = [s \in Sessions |-> IdleDetail]
  /\ UiIdle

VoteNext ==
  \E s \in Sessions :
    \/ FeedMount(s)
    \/ FeedLoadPitches(s)
    \/ \E voteType \in VoteTypes : FeedVote(s, voteType)
    \/ FeedAdvance(s)
    \/ FeedUnmount(s)
    \/ \E pitchId \in VotePitchIds : DetailOpen(s, pitchId)
    \/ \E voteType \in VoteTypes : DetailVote(s, voteType)
    \/ DetailReload(s)
    \/ DetailClose(s)

VoteSpec == VoteInit /\ [][VoteNext]_vars

\* the feeds and the endpoint over the same store, while users are deleted
DeleteNext ==
  \/ \E uid \in Users : DeleteProfile(uid)
  \/ \E s \in Sessions :
       \/ FeedMount(s)
       \/ FeedLoadPitches(s)
       \/ \E voteType \in VoteTypes : FeedVote(s, voteType)
       \/ FeedAdvance(s)
       \/ FeedUnmount(s)
  \/ \E i \in Invocations :
       \/ \E body \in VotePitchIds : Start(i, body)
       \/ Generate(i)
       \/ InsertFeedback(i)
       \/ SetCompleted(i)
       \/ Catch(i)

DeleteSpec == VoteInit /\ [][DeleteNext]_vars

(* ------------------------------------------------------------------ *)
(* PitchSubmissionForm                                                  *)
(* ------------------------------------------------------------------ *)
totalSteps == 5
MaxSaves == 1
SaveSlots == 1..MaxSaves

\* what the user types into the text field of one of the steps 1 to 4
FieldTexts == {"text"}

\* what the user types as the elevator pitch, by its number of words
ElevatorPitches == {249, 250, 500, 501}

\* String.prototype.trim
Trim(text) == IF text = " " THEN "" ELSE text

\* text.trim().split(/\s+/).length: the number of words, and 1 for a text
\* without a word (''.split(/\s+/) is [''])
SplitLength(words) == IF words = 0 THEN 1 ELSE words

\* mutant: the validity of step 5 without its lower limit
isStepValidUpTo500(step, formData) ==
  CASE step = 1 -> Trim(formData.title) # ""
    [] step = 2 -> Trim(formData.target_audience) # ""
    [] step = 3 -> Trim(formData.pain_point) # ""
    [] step = 4 -> Trim(formData.product_description) # ""
    [] step = 5 -> SplitLength(formData.elevator_pitch) <= 500
    [] OTHER -> FALSE

\* lines 189-205
isStepValid(step, formData) ==
  CASE step = 1 -> Trim(formData.title) # ""
    [] step = 2 -> Trim(formData.target_audience) # ""
    [] step = 3 -> Trim(formData.pain_point) # ""
    [] step = 4 -> Trim(formData.product_description) # ""
    [] step = 5 -> LET wordCount == SplitLength(formData.elevator_pitch)
                   IN wordCount >= 250 /\ wordCount <= 500
    [] OTHER -> FALSE

\* {...formData, status}: the columns an update of the form writes
FormPatch(formData, status) ==
  [ title |-> formData.title,
    target_audience |-> formData.target_audience,
    pain_point |-> formData.pain_point,
    product_description |-> formData.product_description,
    elevator_pitch |-> formData.elevator_pitch,
    status |-> status ]

\* {...formData, user_id, status}: the row an insert of the form writes
FormRow(id, formData, status) ==
  [ c \in DOMAIN NewPitchRow(id, status) |->
      IF c = "user_id" THEN Entrepreneur
      ELSE IF c \in DOMAIN FormPatch(formData, status)
        THEN FormPatch(formData, status)[c]
        ELSE NewPitchRow(id, status)[c] ]

\* update(patch).eq('id', id) by user uid under the policy "Users can
\* update own pitches"
UpdateOwnEqId(rows, uid, id, patch) ==
  { IF r.id = id /\ r.user_id = uid
      THEN [c \in DOMAIN r |-> IF c \in DOMAIN patch THEN patch[c] ELSE r[c]]
      ELSE r : r \in rows }

\* the form's write of formData with a status: an update of the row
\* draftId, or an insert when the form has no draftId
FormWrite(rows, draftId, formData, status) ==
  IF draftId # Undefined
    THEN UpdateOwnEqId(rows, Entrepreneur, draftId, FormPatch(formData, status))
    ELSE rows \cup {FormRow(FreshId(rows), formData, status)}

\* App.handleCreatePitch and lines 37-39: the form is shown and asks for
\* the user's draft (one submission is followed at a time)
FormOpen ==
  /\ form.pc = "closed"
  /\ form.submit = "none"
  /\ form.opened < MaxFormSessions
  /\ form' = [IdleForm EXCEPT !.pc = "open", !.opened = form.opened + 1,
                              !.loadDraft = TRUE, !.saves = form.saves]
  /\ UNCHANGED <<storeVars, endpointVars, clientVars, screen, dash, board, clicks>>

\* lines 41-69: the answer of loadDraft: one of the user's drafts, if there
\* is one (which of several is the latest is left open), fills the form
FormLoadDraft ==
  /\ form.pc = "open"
  /\ form.loadDraft
  /\ LET drafts == {p \in pitches : p.user_id = Entrepreneur /\ p.status = "draft"}
     IN \/ /\ drafts = {}
           /\ form' = [form EXCEPT !.loadDraft = FALSE]
        \/ \E data \in drafts :
             form' = [form EXCEPT
                        !.loadDraft = FALSE,
                        !.draftId = data.id,
                        !.formData = [c \in DOMAIN EmptyFormData |-> data[c]]]
  /\ UNCHANGED <<storeVars, endpointVars, clientVars, screen, dash, board, clicks>>

\* lines 237-357: the field each step shows
StepField(step) ==
  CASE step = 1 -> "title"
    [] step = 2 -> "target_audience"
    [] step = 3 -> "pain_point"
    [] step = 4 -> "product_description"
    [] OTHER -> "elevator_pitch"

\* lines 185-187: the user types into the text field of the step
FormUpdateField(value) ==
  /\ form.pc = "open"
  /\ form.step < totalSteps
  /\ form.formData[StepField(form.step)] # value
  /\ form' = [form EXCEPT !.formData[StepField(form.step)] = value]
  /\ UNCHANGED <<storeVars, endpointVars, clientVars, screen, dash, board, clicks>>

\* lines 185-187: the user types the elevator pitch on the last step
FormUpdateElevatorPitch(value) ==
  /\ form.pc = "open"
  /\ form.step = totalSteps
  /\ form.formData.elevator_pitch # value
  /\ form' = [form EXCEPT !.formData.elevator_pitch = value]
  /\ UNCHANGED <<storeVars, endpointVars, clientVars, screen, dash, board, clicks>>

\* lines 71-102, up to the request: saveDraft sends its write (of: the
\* form instance that sent it)
saveDraft ==
  Append(form.saves, [id |-> form.draftId, data |-> form.formData, of |-> form.opened])

\* lines 169-176 and 360-363: the button Continue / Submit Pitch, enabled
\* while the step is valid and no submission runs: saveDraft, then the
\* next step or, on the last step, handleSubmit up to its write
FormNextStep ==
  /\ form.pc = "open"
  /\ isStepValid(form.step, form.formData)
  /\ ~form.loading
  /\ Len(form.saves) < MaxSaves
  /\ IF form.step < totalSteps
       THEN /\ form' = [form EXCEPT !.saves = saveDraft, !.step = @ + 1]
            /\ clicks' = clicks
       ELSE /\ clicks < MaxClicks
            /\ form' = [form EXCEPT !.saves = saveDraft,
                                    !.loading = TRUE,
                                    !.submit = "write",
                                    !.submitId = form.draftId,
                                    !.submitData = form.formData]
            /\ clicks' = clicks + 1
  /\ UNCHANGED <<storeVars, endpointVars, clientVars, screen, dash, board>>

\* lines 178-183 and 216: the button Back
FormBack ==
  /\ form.pc = "open"
  /\ form.step > 1
  /\ Len(form.saves) < MaxSaves
  /\ form' = [form EXCEPT !.saves = saveDraft, !.step = @ - 1]
  /\ UNCHANGED <<storeVars, endpointVars, clientVars, screen, dash, board, clicks>>

\* line 216 and App.handleCloseModal: the button Cancel of the first step;
\* what the form has sent stays on its way
FormCancel ==
  /\ form.pc = "open"
  /\ form.step = 1
  /\ form' = [form EXCEPT !.pc = "closed", !.loadDraft = FALSE]
  /\ UNCHANGED <<storeVars, endpointVars, clientVars, screen, dash, board, clicks>>

\* a sequence without its k-th element
Without(seq, k) == [j \in 1..(Len(seq) - 1) |-> IF j < k THEN seq[j] ELSE seq[j + 1]]

\* lines 75-98: a write of saveDraft reaches the store, in any order with
\* the others; the id of an inserted draft becomes the form's draftId
FormSaveDraft(k) ==
  /\ k \in DOMAIN form.saves
  /\ form.saves[k].id = Undefined => Cardinality(pitches) < MaxPitchIds
  /\ pitches' = FormWrite(pitches, form.saves[k].id, form.saves[k].data, "draft")
  /\ form' = [form EXCEPT
       !.saves = Without(form.saves, k),
       !.draftId = IF /\ form.saves[k].id = Undefined
                        /\ form.pc = "open"
                        /\ form.saves[k].of = form.opened
                     THEN FreshId(pitches) ELSE @]
  /\ UNCHANGED <<profiles, ai_feedback, votes, endpointVars, clientVars, screen, dash, board, clicks>>

\* lines 99-101: a write of saveDraft fails; the error is logged
FormSaveDraftFails(k) ==
  /\ k \in DOMAIN form.saves
  /\ form' = [form EXCEPT !.saves = Without(form.saves, k)]
  /\ UNCHANGED <<storeVars, endpointVars, clientVars, screen, dash, board, clicks>>

\* lines 108-134: the write of handleSubmit reaches the store: the draft
\* is published, or a published row inserted
FormPublish ==
  /\ form.submit = "write"
  /\ form.submitId = Undefined => Cardinality(pitches) < MaxPitchIds
  /\ pitches' = FormWrite(pitches, form.submitId, form.submitData, "published")
  /\ form' = [form EXCEPT
       !.submit = "fetch",
       !.submitId = IF form.submitId = Undefined THEN FreshId(pitches) ELSE @]
  /\ UNCHANGED <<profiles, ai_feedback, votes, endpointVars, clientVars, screen, dash, board, clicks>>

\* lines 120, 132 and 161-166: the write of handleSubmit fails: an alert,
\* and the form is released
FormPublishFails ==
  /\ form.submit = "write"
  /\ form' = [form EXCEPT !.submit = "none", !.submitId = Undefined,
                          !.submitData = EmptyFormData, !.loading = FALSE]
  /\ UNCHANGED <<storeVars, endpointVars, clientVars, screen, dash, board, clicks>>

\* lines 136-146: handleSubmit calls the endpoint for the pitch
FormFetch(i) ==
  /\ form.submit = "fetch"
  /\ Begin(i, form.submitId)
  /\ form' = [form EXCEPT !.submit = "call", !.call = i]
  /\ UNCHANGED <<profiles, ai_feedback, votes, openaiApiKey, clientVars, screen, dash, board, clicks>>

\* mutant: onComplete only after an answer 200 of the endpoint
FormCompleteOnlyOk ==
  /\ form.submit = "call"
  /\ inv[form.call].pc = "done"
  /\ inv[form.call].response = 200
  /\ form' = [IdleForm EXCEPT !.saves = form.saves, !.opened = form.opened]
  /\ UNCHANGED <<storeVars, endpointVars, clientVars, screen, dash, board, clicks>>

\* lines 148-166 and App.handlePitchComplete: the endpoint has answered, or
\* the call has failed: either is logged, and the form is closed
FormComplete ==
  /\ \/ form.submit = "call" /\ inv[form.call].pc = "done"
     \/ form.submit \in {"fetch", "call"}
  /\ form' = [IdleForm EXCEPT !.saves = form.saves, !.opened = form.opened]
  /\ UNCHANGED <<storeVars, endpointVars, clientVars, screen, dash, board, clicks>>

\* what an earlier session of the form has left as a draft
DraftData ==
  [ title |-> "text", target_audience |-> "text", pain_point |-> "text",
    product_description |-> "text", elevator_pitch |-> 249 ]

\* the entrepreneur's browser on an empty store or on a store with a draft
\* of theirs, and the endpoint
FormInit ==
  /\ pitches \in {{}, {FormRow(1, DraftData, "draft")}}
  /\ ai_feedback = {}
  /\ votes = {}
  /\ profiles = Users
  /\ openaiApiKey \in BOOLEAN
  /\ inv = [i \in Invocations |-> IdleInvocation]
  /\ session = [s \in Sessions |-> "u1"]
  /\ feed = [s \in Sessions |-> IdleFeed]
  /\ detail = [s \in Sessions |-> IdleDetail]
  /\ UiIdle

FormNext ==
  \/ FormOpen
  \/ FormLoadDraft
  \/ \E value \in FieldTexts : FormUpdateField(value)
  \/ \E value \in ElevatorPitches : FormUpdateElevatorPitch(value)
  \/ FormNextStep
  \/ FormBack
  \/ FormCancel
  \/ \E k \in SaveSlots : FormSaveDraft(k) \/ FormSaveDraftFails(k)
  \/ FormPublish
  \/ FormPublishFails
  \/ FormComplete
  \/ \E i \in Invocations :
       \/ FormFetch(i)
       \/ Generate(i)
       \/ InsertFeedback(i)
       \/ SetCompleted(i)
       \/ Catch(i)

FormSpec == FormInit /\ [][FormNext]_vars

\* the form on an empty store: every row of the store is one that a
\* session of the form has created
SessionInit ==
  /\ FormInit
  /\ pitches = {}

SessionSpec == SessionInit /\ [][FormNext]_vars

\* the entrepreneur goes forward through the form while another user's
\* browsers show the feed; every write succeeds and the endpoint does not
\* get to answer
FormVoteInit ==
  /\ pitches \in {{}, {FormRow(1, DraftData, "draft")}}
  /\ ai_feedback = {}
  /\ votes = {}
  /\ profiles = Users
  /\ openaiApiKey = FALSE
  /\ inv = [i \in Invocations |-> IdleInvocation]
  /\ session = [s \in Sessions |-> "u2"]
  /\ feed = [s \in Sessions |-> IdleFeed]
  /\ detail = [s \in Sessions |-> IdleDetail]
  /\ UiIdle

FormVoteNext ==
  \/ FormOpen
  \/ FormLoadDraft
  \/ \E value \in FieldTexts : FormUpdateField(value)
  \/ \E value \in ElevatorPitches : FormUpdateElevatorPitch(value)
  \/ FormNextStep
  \/ \E k \in SaveSlots : FormSaveDraft(k)
  \/ FormPublish
  \/ FormComplete
  \/ \E i \in Invocations : FormFetch(i)
  \/ \E s \in Sessions :
       \/ FeedMount(s)
       \/ FeedLoadPitches(s)
       \/ \E voteType \in VoteTypes : FeedVote(s, voteType)
       \/ FeedAdvance(s)
       \/ FeedUnmount(s)

FormVoteSpec == FormVoteInit /\ [][FormVoteNext]_vars

(* ------------------------------------------------------------------ *)
(* SubmissionSuccessScreen                                              *)
(* ------------------------------------------------------------------ *)
TerminalStatuses == {"completed", "failed"}

\* lines 46-71: checkAIStatus of the render whose pollingInterval is
\* closure: the status read, and the interval cleared when the status is
\* terminal and that pollingInterval is set; a pitch that cannot be read
\* is an error, which is logged
checkAIStatus(closure) ==
  LET found == {p \in VisiblePitches(Entrepreneur) : p.id = screen.pitchId}
      status == (CHOOSE p \in found : TRUE).ai_processing_status
  IN IF found = {}
       THEN [screen EXCEPT !.issued = 1 - @]
       ELSE IF status \in TerminalStatuses /\ closure # NULL
         THEN [screen EXCEPT !.issued = 1 - @, !.aiStatus = status,
                             !.timer = FALSE, !.pollingInterval = NULL]
         ELSE [screen EXCEPT !.issued = 1 - @, !.aiStatus = status]

\* lines 27-44: the screen is shown for a pitch: the effect of the first
\* render calls checkAIStatus, starts the interval with that checkAIStatus
\* and stores the interval in pollingInterval
ScreenMount(pitchId) ==
  /\ screen.pc = "unmounted"
  /\ LET first == [IdleScreen EXCEPT !.pc = "mounted", !.pitchId = pitchId,
                                     !.issued = screen.issued]
     IN screen' = [first EXCEPT !.closure = first.pollingInterval,
                                !.timer = TRUE,
                                !.pollingInterval = "interval"]
  /\ UNCHANGED <<storeVars, endpointVars, clientVars, form, dash, board, clicks>>

\* lines 36-38: the call of the effect, and every 3 seconds the interval,
\* run checkAIStatus of the first render
ScreenCheck ==
  /\ screen.pc = "mounted"
  /\ screen.timer
  /\ screen' = checkAIStatus(screen.closure)
  /\ UNCHANGED <<storeVars, endpointVars, clientVars, form, dash, board, clicks>>

\* lines 41-43: the screen is left; the cleanup of the effect clears the
\* interval
ScreenUnmount ==
  /\ screen.pc = "mounted"
  /\ screen' = [IdleScreen EXCEPT !.issued = screen.issued]
  /\ UNCHANGED <<storeVars, endpointVars, clientVars, form, dash, board, clicks>>

ScreenNext ==
  \/ \E pitchId \in PitchIds : ScreenMount(pitchId)
  \/ ScreenCheck
  \/ ScreenUnmount
  \/ \E i \in Invocations :
       \/ \E body \in PitchIds : Start(i, body)
       \/ Generate(i)
       \/ InsertFeedback(i)
       \/ SetCompleted(i)
       \/ Catch(i)

ScreenSpec == EndpointInit /\ [][ScreenNext]_vars

(* ------------------------------------------------------------------ *)
(* EntrepreneurDashboard                                                *)
(* ------------------------------------------------------------------ *)
MaxLoads == 1

\* lines 460-466: the user's pitches as loadPitches selects them, latest
\* first, by the columns the dashboard decides on
DashRows ==
  LET ids == LatestFirst({p.id : p \in {q \in pitches : q.user_id = Entrepreneur}})
  IN [ k \in DOMAIN ids |->
         [ id |-> ids[k],
           status |-> PitchRow(ids[k]).status,
           ai_processing_status |-> PitchRow(ids[k]).ai_processing_status ] ]

\* lines 419-421
hasProcessingPitches(rows) ==
  \E k \in DOMAIN rows :
    /\ rows[k].status = "published"
    /\ rows[k].ai_processing_status \in {"pending", "processing"}

\* lines 415-416: the dashboard is shown; its effect calls loadPitches
DashMount ==
  /\ dash.pc = "unmounted"
  /\ dash.loads < MaxLoads
  /\ dash' = [IdleDash EXCEPT !.pc = "mounted", !.loads = dash.loads + 1,
                              !.issued = 1 - dash.issued,
                              !.call = dash.call]
  /\ UNCHANGED <<storeVars, endpointVars, clientVars, form, screen, board, clicks>>

\* lines 456-516 and 415-428: a loadPitches call returns its rows:
\* setPitches stores a new array, and since pitches is a dependency of the
\* effect, the effect runs again and calls loadPitches; a dashboard that
\* is no longer shown ignores the rows
DashLoadReturns ==
  /\ dash.loads > 0
  /\ dash' = IF dash.pc = "mounted"
               THEN [dash EXCEPT !.pitches = DashRows, !.loading = FALSE,
                                 !.issued = 1 - @]
               ELSE [dash EXCEPT !.loads = @ - 1]
  /\ UNCHANGED <<storeVars, endpointVars, clientVars, form, screen, board, clicks>>

\* lines 511-515: a loadPitches call fails: the error is logged
DashLoadFails ==
  /\ dash.loads > 0
  /\ dash' = [dash EXCEPT !.loads = @ - 1,
                          !.loading = IF dash.pc = "mounted" THEN FALSE ELSE @]
  /\ UNCHANGED <<storeVars, endpointVars, clientVars, form, screen, board, clicks>>

\* lines 418-425: the interval of the effect, every 3 seconds
DashTick ==
  /\ dash.pc = "mounted"
  /\ hasProcessingPitches(dash.pitches)
  /\ dash.loads < MaxLoads
  /\ dash' = [dash EXCEPT !.loads = @ + 1, !.issued = 1 - @]
  /\ UNCHANGED <<storeVars, endpointVars, clientVars, form, screen, board, clicks>>

\* lines 427: the dashboard is left; the cleanup clears the interval
DashUnmount ==
  /\ dash.pc = "mounted"
  /\ dash' = [IdleDash EXCEPT !.loads = dash.loads, !.issued = dash.issued,
                              !.call = dash.call]
  /\ UNCHANGED <<storeVars, endpointVars, clientVars, form, screen, board, clicks>>

\* lines 606-610 and 682-700: the button Retry AI Analysis of a published
\* pitch shown as failed, disabled while that pitch is retried; lines
\* 430-440: retryAIFeedback calls the endpoint (one call is followed at a
\* time)
DashRetry(i, pitchId) ==
  /\ dash.pc = "mounted"
  /\ ~dash.loading
  /\ \E k \in DOMAIN dash.pitches :
       /\ dash.pitches[k].id = pitchId
       /\ dash.pitches[k].status = "published"
       /\ dash.pitches[k].ai_processing_status = "failed"
  /\ dash.retryingFeedback # pitchId
  /\ dash.call = Undefined
  /\ clicks < MaxClicks
  /\ clicks' = clicks + 1
  /\ Begin(i, pitchId)
  /\ dash' = [dash EXCEPT !.retryingFeedback = pitchId, !.call = i]
  /\ UNCHANGED <<profiles, ai_feedback, votes, openaiApiKey, clientVars, form, screen, board>>

\* mutant: the answer that calls the endpoint again when it is not ok
DashRetryAnswerCallsAgain ==
  /\ dash.call # Undefined
  /\ inv[dash.call].pc = "done"
  /\ IF inv[dash.call].response = 200
       THEN /\ dash' = [dash EXCEPT !.loads = @ + 1,
                                    !.retryingFeedback = Undefined,
                                    !.call = Undefined]
            /\ UNCHANGED <<profiles, pitches, inv>>
       ELSE \E i \in Invocations :
              /\ Begin(i, dash.retryingFeedback)
              /\ dash' = [dash EXCEPT !.call = i]
  /\ UNCHANGED <<profiles, ai_feedback, votes, openaiApiKey, clientVars, form, screen, board, clicks>>

\* lines 442-453: the endpoint has answered: on response.ok loadPitches is
\* called, otherwise an alert is shown; then the button is released
DashRetryAnswer ==
  /\ dash.call # Undefined
  /\ inv[dash.call].pc = "done"
  /\ dash' = [dash EXCEPT
       !.loads = IF inv[dash.call].response = 200 THEN @ + 1 ELSE @,
       !.retryingFeedback = Undefined,
       !.call = Undefined]
  /\ UNCHANGED <<storeVars, endpointVars, clientVars, form, screen, board, clicks>>

\* lines 447-450: the call of the endpoint fails: an alert is shown and
\* the button released
DashRetryFails ==
  /\ dash.call # Undefined
  /\ dash' = [dash EXCEPT !.retryingFeedback = Undefined, !.call = Undefined]
  /\ UNCHANGED <<storeVars, endpointVars, clientVars, form, screen, board, clicks>>

DashNext ==
  \/ DashMount
  \/ DashLoadReturns
  \/ DashLoadFails
  \/ DashTick
  \/ DashUnmount
  \/ DashRetryAnswer
  \/ DashRetryFails
  \/ \E i \in Invocations :
       \/ \E pitchId \in PitchIds : DashRetry(i, pitchId)
       \/ Generate(i)
       \/ InsertFeedback(i)
       \/ SetCompleted(i)
       \/ Catch(i)

DashSpec == EndpointInit /\ [][DashNext]_vars

(* ------------------------------------------------------------------ *)
(* The callers of the endpoint: the form, the dashboard and the detail  *)
(* view                                                                 *)
(* ------------------------------------------------------------------ *)
\* the entrepreneur's browser (form and dashboard) and a detail view, on a
\* store with a draft of the entrepreneur, or with a published pitch of
\* theirs whose analysis has failed and a new pitch of another user
ClientKinds ==
  { [p \in PitchIds |-> IF p = 1 THEN "draft" ELSE "absent"],
    [p \in PitchIds |-> IF p = 1 THEN "old_published" ELSE "new_published"] }

ClientInit ==
  /\ \E kind \in ClientKinds :
       /\ pitches = InitialPitches(kind)
       /\ ai_feedback = InitialFeedback(kind)
  /\ votes = {}
  /\ profiles = Users
  /\ openaiApiKey \in BOOLEAN
  /\ inv = [i \in Invocations |-> IdleInvocation]
  /\ session = [s \in Sessions |-> "u1"]
  /\ feed = [s \in Sessions |-> IdleFeed]
  /\ detail = [s \in Sessions |-> IdleDetail]
  /\ UiIdle

\* the session of the entrepreneur's browser
Viewer == 1

\* the elevator pitch the entrepreneur types here: one the form accepts (the
\* entrepreneur goes forward through the form, or cancels it)
ClientElevatorPitches == {250}

\* App.handleCreatePitch and lines 94-104: the form is the modal of the
\* browser, opened while no other modal covers the page
AppCreatePitch ==
  /\ detail[Viewer].pc = "unmounted"
  /\ FormOpen

\* App.handleViewPitch and lines 94-104: the detail view is the modal of
\* the browser, opened while no other modal covers the page
AppViewPitch(pitchId) ==
  /\ form.pc = "closed"
  /\ DetailOpen(Viewer, pitchId)

ClientNext ==
  \/ AppCreatePitch
  \/ FormLoadDraft
  \/ \E value \in FieldTexts : FormUpdateField(value)
  \/ \E value \in ClientElevatorPitches : FormUpdateElevatorPitch(value)
  \/ FormNextStep
  \/ FormCancel
  \/ \E k \in SaveSlots : FormSaveDraft(k) \/ FormSaveDraftFails(k)
  \/ FormPublish
  \/ FormPublishFails
  \/ FormComplete
  \/ DashMount
  \/ DashLoadReturns
  \/ DashLoadFails
  \/ DashTick
  \/ DashUnmount
  \/ DashRetryAnswer
  \/ DashRetryFails
  \/ \E pitchId \in PitchIds : AppViewPitch(pitchId)
  \/ DetailRetryAnswer(Viewer)
  \/ DetailRetryFails(Viewer)
  \/ DetailClose(Viewer)
  \/ \E i \in Invocations :
       \/ FormFetch(i)
       \/ \E pitchId \in PitchIds : DashRetry(i, pitchId)
       \/ DetailRetry(Viewer, i)
       \/ Generate(i)
       \/ InsertFeedback(i)
       \/ SetCompleted(i)
       \/ Catch(i)

ClientSpec == ClientInit /\ [][ClientNext]_vars

\* the browser opens and closes the detail view of a pitch and asks for
\* its feedback; every call of the endpoint is answered
ViewNext ==
  \/ \E pitchId \in PitchIds : AppViewPitch(pitchId)
  \/ DetailRetryAnswer(Viewer)
  \/ DetailClose(Viewer)
  \/ \E i \in Invocations :
       \/ DetailRetry(Viewer, i)
       \/ Generate(i)
       \/ InsertFeedback(i)
       \/ SetCompleted(i)
       \/ Catch(i)

ViewSpec == ClientInit /\ [][ViewNext]_vars

\* what saveDraft has written for a session that was left on step 2: the
\* title, and the other fields as the form initialises them
PartialDraftData == [EmptyFormData EXCEPT !.title = "text"]

\* the entrepreneur's browser on a store with such a draft of theirs
PartialDraftInit ==
  /\ pitches = {FormRow(1, PartialDraftData, "draft")}
  /\ ai_feedback = {}
  /\ votes = {}
  /\ profiles = Users
  /\ openaiApiKey = FALSE
  /\ inv = [i \in Invocations |-> IdleInvocation]
  /\ session = [s \in Sessions |-> "u1"]
  /\ feed = [s \in Sessions |-> IdleFeed]
  /\ detail = [s \in Sessions |-> IdleDetail]
  /\ UiIdle

\* the entrepreneur edits, goes forward and back and submits, while the
\* answer of loadDraft arrives at any moment
PartialDraftNext ==
  \/ FormOpen
  \/ FormLoadDraft
  \/ \E value \in FieldTexts : FormUpdateField(value)
  \/ \E value \in ClientElevatorPitches : FormUpdateElevatorPitch(value)
  \/ FormNextStep
  \/ FormBack
  \/ \E k \in SaveSlots : FormSaveDraft(k)
  \/ FormPublish
  \/ FormComplete
  \/ \E i \in Invocations : FormFetch(i)

PartialDraftSpec == PartialDraftInit /\ [][PartialDraftNext]_vars

\* the entrepreneur goes forward through the form and submits; the writes
\* of handleSubmit and the endpoint may fail
SubmitNext ==
  \/ FormOpen
  \/ FormLoadDraft
  \/ \E value \in FieldTexts : FormUpdateField(value)
  \/ \E value \in ClientElevatorPitches : FormUpdateElevatorPitch(value)
  \/ FormNextStep
  \/ \E k \in SaveSlots : FormSaveDraft(k)
  \/ FormPublish
  \/ FormPublishFails
  \/ FormComplete
  \/ \E i \in Invocations :
       \/ FormFetch(i)
       \/ Generate(i)
       \/ InsertFeedback(i)
       \/ SetCompleted(i)
       \/ Catch(i)

SubmitSpec == FormInit /\ [][SubmitNext]_vars

(* ------------------------------------------------------------------ *)
(* Leaderboard                                                          *)
(* ------------------------------------------------------------------ *)
LeaderLimit == 20
MaxBoardPitches == 21

Filters == {"all", "today", "week"}

\* created_at against the time of the load: at or after the last midnight
\* ("today"), before it and at most seven days old ("week"), or "older"
Ages == {"today", "week", "older"}

\* query.gte('created_at', ...) of the filter
InWindow(filter, created_at) ==
  CASE filter = "today" -> created_at = "today"
    [] filter = "week"  -> created_at \in {"today", "week"}
    [] OTHER            -> TRUE

\* lines 493-512: one pitch with its vote counts and its score
BoardEntry(p) ==
  LET rows == {v \in votes : v.pitch_id = p.id}
      feedbackData == {f \in ai_feedback : f.pitch_id = p.id}
  IN [ id |-> p.id,
       vote_counts |->
         [ interesting |-> Cardinality({v \in rows : v.vote_type = "interesting"}),
           needs_work |-> Cardinality({v \in rows : v.vote_type = "needs_work"}) ],
       ai_score |-> IF feedbackData = {} THEN Undefined
                    ELSE (CHOOSE f \in feedbackData : TRUE).overall_score,
       rank |-> 0 ]

\* line 515: the comparator of the sort
CompareInteresting(a, b) == b.vote_counts.interesting - a.vote_counts.interesting

\* Array.prototype.sort with the comparator: a stable sort, here by
\* insertion from the left
RECURSIVE InsertSorted(_, _)
InsertSorted(sorted, e) ==
  IF sorted = <<>> THEN <<e>>
  ELSE IF CompareInteresting(sorted[Len(sorted)], e) <= 0
    THEN Append(sorted, e)
    ELSE Append(InsertSorted(SubSeq(sorted, 1, Len(sorted) - 1), e),
                sorted[Len(sorted)])

RECURSIVE SortEntries(_)
SortEntries(seq) ==
  IF seq = <<>> THEN <<>>
  ELSE InsertSorted(SortEntries(SubSeq(seq, 1, Len(seq) - 1)), seq[Len(seq)])

\* the rows of a select without an order clause, taken in the order of
\* their ids
RECURSIVE InIdOrder(_)
InIdOrder(rows) ==
  IF rows = {} THEN <<>>
  ELSE LET last == CHOOSE r \in rows : \A q \in rows : q.id <= r.id
       IN Append(InIdOrder(rows \ {last}), last)

\* mutant: the ranks counted from 0
RankedFromZero(seq) ==
  [k \in DOMAIN seq |-> [seq[k] EXCEPT !.rank = k - 1]]

\* line 516: .map((pitch, index) => ({...pitch, rank: index + 1}))
Ranked(seq) ==
  [k \in DOMAIN seq |-> [seq[k] EXCEPT !.rank = k]]

\* lines 468-519: the published pitches of the window, sorted, ranked and
\* cut to the first 20
Leaders(filter) ==
  LET pitchData == InIdOrder({p \in pitches : /\ p.status = "published"
                                              /\ InWindow(filter, p.created_at)})
      pitchesWithData == [k \in DOMAIN pitchData |-> BoardEntry(pitchData[k])]
  IN Take(Ranked(SortEntries(pitchesWithData)), LeaderLimit)

\* lines 460-525: the load that the mount or a new filter started ends and
\* shows its list
BoardLoad ==
  /\ board.loading
  /\ board' = [board EXCEPT !.pitches = Leaders(board.filter), !.loading = FALSE]
  /\ UNCHANGED <<storeVars, endpointVars, clientVars, form, screen, dash, clicks>>

\* lines 483 and 520-524: the query for the pitches fails; the error is
\* logged and the list stays as it was
BoardLoadFails ==
  /\ board.loading
  /\ board' = [board EXCEPT !.loading = FALSE]
  /\ UNCHANGED <<storeVars, endpointVars, clientVars, form, screen, dash, clicks>>

\* lines 556-585 and 460-465: a filter button (the buttons are not shown
\* while a load runs); a filter other than the one selected starts a load
BoardSetFilter(filter) ==
  /\ ~board.loading
  /\ filter # board.filter
  /\ board' = [board EXCEPT !.filter = filter, !.loading = TRUE]
  /\ UNCHANGED <<storeVars, endpointVars, clientVars, form, screen, dash, clicks>>

\* The store of the leaderboard: pitches 1..n, all of one sort but for the
\* first or the last of them.  A sort gives the pitch's status and age,
\* the vote of the one user who is not its owner, and its AI score.
BoardSorts ==
  [ shown : {"draft", "today", "week", "older"},
    vote : VoteTypes \cup {NULL},
    scored : BOOLEAN ]

BoardPitch(id, sort) ==
  [ NewPitchRow(id, IF sort.shown = "draft" THEN "draft" ELSE "published")
      EXCEPT !.created_at = IF sort.shown = "draft" THEN "today" ELSE sort.shown,
             !.ai_processing_status = IF sort.scored THEN "completed" ELSE "failed",
             !.ai_processing_completed_at = IF sort.scored THEN Timestamp ELSE NULL ]

BoardVotes(id, sort) ==
  IF sort.vote = NULL THEN {}
  ELSE { [ id |-> id, pitch_id |-> id,
           user_id |-> IF PitchOwner(id) = "u1" THEN "u2" ELSE "u1",
           vote_type |-> sort.vote ] }

BoardFeedback(id, sort) ==
  IF sort.scored THEN {OldFeedbackRow(id)} ELSE {}

BoardInit ==
  /\ \E n \in 0..MaxBoardPitches : \E common, other \in BoardSorts :
       \E special \in {1, n} :
         LET sortOf(id) == IF id = special THEN other ELSE common
         IN /\ pitches = { BoardPitch(id, sortOf(id)) : id \in 1..n }
            /\ votes = UNION { BoardVotes(id, sortOf(id)) : id \in 1..n }
            /\ ai_feedback = UNION { BoardFeedback(id, sortOf(id)) : id \in 1..n }
  /\ profiles = Users
  /\ openaiApiKey = TRUE
  /\ inv = [i \in Invocations |-> IdleInvocation]
  /\ session = [s \in Sessions |-> "u1"]
  /\ feed = [s \in Sessions |-> IdleFeed]
  /\ detail = [s \in Sessions |-> IdleDetail]
  /\ UiIdle

BoardNext ==
  \/ BoardLoad
  \/ BoardLoadFails
  \/ \E filter \in Filters : BoardSetFilter(filter)

BoardSpec == BoardInit /\ [][BoardNext]_vars

(* ------------------------------------------------------------------ *)
(* Properties of the edge function                                      *)
(* ------------------------------------------------------------------ *)
RowOf(rows, id) == CHOOSE r \in rows : r.id = id

AiStatus(rows, id) == RowOf(rows, id).ai_processing_status

\* invocation i takes a step
Steps(i) == inv'[i] # inv[i]

\* invocation i takes its last step (SetCompleted or Catch) for a pitch
Finishes(i) ==
  /\ inv[i].pc \in {"complete", "catch"}
  /\ inv'[i].pc = "done"
  /\ PitchExists(inv[i].pitch_id)

StatusStep(a, b) ==
  \/ a = b
  \/ <<a, b>> \in { <<"pending", "processing">>, <<"processing", "completed">>,
                    <<"processing", "failed">>, <<"failed", "processing">> }

\* C1: the AI-processing status of a pitch changes only along pending ->
\* processing, processing -> completed, processing -> failed and failed ->
\* processing; in particular a completed pitch keeps its status.
StatusFollowsStateMachine ==
  [][\A r \in pitches : \A q \in pitches' :
       q.id = r.id => StatusStep(r.ai_processing_status, q.ai_processing_status)]_vars

\* C2: every pitch whose AI-processing status is completed has exactly one
\* ai_feedback row with its id.
CompletedHasOneFeedback ==
  \A r \in pitches :
    r.ai_processing_status = "completed" => Cardinality(FeedbackRows(r.id)) = 1

CompletedByInvocation ==
  \E i \in Invocations : \E r \in pitches :
    /\ inv[i].pc = "done" /\ inv[i].response = 200
    /\ r.ai_processing_status = "completed"
    /\ r.ai_processing_started_at # NULL

\* an invocation whose insert finds a feedback row of its pitch
LosesInsert(i) ==
  /\ inv[i].pc = "insert"
  /\ Steps(i)
  /\ FeedbackRows(inv[i].pitch_id) # {}

\* C3: at most one ai_feedback row per pitch ever exists; an insert is never
\* made to wait, and the invocation whose insert finds a row of its pitch
\* gets the insert error, goes to the catch block and answers 500.
AtMostOneFeedbackLoserFails ==
  /\ [](\A p \in PitchIds : Cardinality(FeedbackRows(p)) <= 1)
  /\ [](\A i \in Invocations : inv[i].pc = "insert" => ENABLED InsertFeedback(i))
  /\ [][\A i \in Invocations :
          /\ LosesInsert(i) =>
               /\ ai_feedback' = ai_feedback
               /\ inv'[i].pc = "catch"
               /\ inv'[i].error # NULL
               /\ OverallScoreCheck(inv[i].feedback.overall_score) =>
                    inv'[i].error = "duplicate key value violates unique constraint"
          /\ inv[i].pc = "catch" /\ Steps(i) =>
               inv'[i].pc = "done" /\ inv'[i].response = 500]_vars

LoserInCatch ==
  \E i, j \in Invocations :
    /\ i # j
    /\ inv[i].pc = "catch"
    /\ inv[i].error = "duplicate key value violates unique constraint"
    /\ ~inv[i].startFeedback
    /\ inv[j].pc \in {"complete", "done"}

\* C4: an invocation for a pitch whose status is failed sets it to
\* processing and, with its last step, to completed or failed; no step of
\* it leaves the pitch with a second feedback row, and a feedback row the
\* pitch had is kept as it was.
RetryOfFailed ==
  [][\A i \in Invocations :
       /\ inv[i].pc = "idle" /\ inv'[i].startStatus = "failed" =>
            AiStatus(pitches', inv'[i].pitch_id) = "processing"
       /\ inv[i].startStatus = "failed" /\ Finishes(i) =>
            AiStatus(pitches', inv[i].pitch_id) \in {"completed", "failed"}
       /\ inv[i].startStatus = "failed" /\ Steps(i) =>
            /\ Cardinality({f \in ai_feedback' : f.pitch_id = inv[i].pitch_id}) <= 1
            /\ \A f \in FeedbackRows(inv[i].pitch_id) : f \in ai_feedback']_vars

RetryWithEarlierFeedback ==
  \E i \in Invocations :
    /\ inv[i].startStatus = "failed"
    /\ inv[i].startFeedback
    /\ inv[i].pc = "catch"
    /\ inv[i].error = "duplicate key value violates unique constraint"

\* the payload of the claim: three strengths, three weaknesses, three
\* recommendations and the score 7
IsMockPayload(f) ==
  /\ Len(f.strengths) = 3
  /\ Len(f.weaknesses) = 3
  /\ Len(f.recommendations) = 3
  /\ f.overall_score = 7

NoKeyAnalysisFails ==
  [][~openaiApiKey =>
       /\ ai_feedback' = ai_feedback
       /\ \A i \in Invocations :
            Finishes(i) => AiStatus(pitches', inv[i].pitch_id) = "failed"]_vars

CompletedIsClean ==
  \A r \in pitches :
    r.ai_processing_status = "completed" =>
      r.ai_processing_error = NULL /\ r.ai_processing_completed_at # NULL

\* one pitch has been worked on, by an invocation that failed and by one
\* that succeeded, and is completed
CompletedAfterFailure ==
  /\ \E i, j \in Invocations :
       /\ inv[i].pc = "done" /\ inv[i].response = 500
       /\ inv[j].pc = "done" /\ inv[j].response = 200
  /\ \A r \in pitches :
       r.ai_processing_started_at # NULL => r.ai_processing_status = "completed"

(* ------------------------------------------------------------------ *)
(* Properties of the votes                                              *)
(* ------------------------------------------------------------------ *)
\* C10: whatever the interleaving of the vote actions of the discover feed
\* and of the pitch detail view, of one voter in two sessions as well, the
\* store holds at most one vote row for a pitch and a voter.
OneVotePerPitchAndVoter ==
  \A v, w \in votes :
    v.pitch_id = w.pitch_id /\ v.user_id = w.user_id => v = w

\* C10 witness: a detail view that showed no vote of its user has sent its
\* insert while the store already held the user's vote on that pitch, cast
\* from another session; the view reloads with the first vote in place.
SecondVoteRefused ==
  \E s, t \in Sessions :
    /\ s # t
    /\ session[s] = session[t]
    /\ detail[s].pc = "reload"
    /\ detail[s].pitch.user_vote = NULL
    /\ feed[t].pc = "advance"
    /\ feed[t].pitches[feed[t].currentIndex + 1] = detail[s].pitchId
    /\ Cardinality({v \in votes : /\ v.pitch_id = detail[s].pitchId
                                  /\ v.user_id = session[s]}) = 1

\* C11: no vote row has the owner of its pitch as its voter: the detail
\* view offers no vote on a pitch of its user, the discover feed lists no
\* pitch of its user, and the store refuses the insert of an owner's vote.
NoSelfVote ==
  /\ \A v \in votes : \A p \in pitches :
       p.id = v.pitch_id => p.user_id # v.user_id
  /\ \A s \in Sessions :
       /\ detail[s].pc = "ready" /\ detail[s].pitch.user_id = session[s] =>
            \A t \in VoteTypes : ~ENABLED DetailVote(s, t)
       /\ \A k \in 1..Len(feed[s].pitches) :
            RowOf(pitches, feed[s].pitches[k]).user_id # session[s]
  /\ \A p \in pitches : \A t \in VoteTypes :
       VoteInsertError(votes, p.user_id,
                       [ pitch_id |-> p.id, user_id |-> p.user_id,
                         vote_type |-> t ]) # NULL

\* C11 witness: an owner has the detail view open on the own pitch, which
\* another user has voted on
OwnerViewsVotedPitch ==
  \E s \in Sessions :
    /\ detail[s].pc = "ready"
    /\ detail[s].pitch.user_id = session[s]
    /\ \E v \in votes : v.pitch_id = detail[s].pitchId /\ v.user_id # session[s]

\* C13: when a user votes type t in the detail view on a pitch of another
\* user, the user's one vote row for that pitch has type t afterwards (a
\* first vote inserted, an earlier vote updated, whatever the view had
\* loaded), and the vote rows of the other users are as they were.
DetailVoteSetsType ==
  [][\A s \in Sessions : \A t \in VoteTypes :
       DetailVote(s, t) =>
         /\ \E v \in votes' :
              /\ v.pitch_id = detail[s].pitchId
              /\ v.user_id = session[s]
              /\ v.vote_type = t
              /\ \A w \in votes' :
                   w.pitch_id = v.pitch_id /\ w.user_id = v.user_id => w = v
         /\ \A w \in votes : w.user_id # session[s] => w \in votes']_vars

(* ------------------------------------------------------------------ *)
(* Properties of the leaderboard                                        *)
(* ------------------------------------------------------------------ *)
\* C14: the entries of the leaderboard carry the ranks 1, 2, ..., n in the
\* order of the list, and their interesting-vote counts do not increase
\* along the list.
RanksDenseCountsOrdered ==
  /\ \A k \in DOMAIN board.pitches : board.pitches[k].rank = k
  /\ \A k \in DOMAIN board.pitches : \A j \in DOMAIN board.pitches :
       j < k => board.pitches[j].vote_counts.interesting
                  >= board.pitches[k].vote_counts.interesting

\* C14 witness: a full list whose first entry the sort has brought up from
\* the end of the query's rows
BoardSortedAndCut ==
  /\ ~board.loading
  /\ Len(board.pitches) = LeaderLimit
  /\ board.pitches[1].id > board.pitches[2].id
  /\ board.pitches[1].vote_counts.interesting
       > board.pitches[LeaderLimit].vote_counts.interesting

\* C15: the list the leaderboard shows holds only published pitches of the
\* selected window, at most 20 of them, and no pitch left out has more
\* interesting votes than a pitch shown; the order follows the interesting
\* votes alone (pitches with as many keep the order of the query).
BoardShowsTopOfWindow ==
  ~board.loading =>
    LET shown == {board.pitches[k].id : k \in DOMAIN board.pitches}
        eligible == {p \in pitches : /\ p.status = "published"
                                     /\ InWindow(board.filter, p.created_at)}
        interesting(id) == Cardinality({v \in votes : /\ v.pitch_id = id
                                                      /\ v.vote_type = "interesting"})
    IN /\ shown \subseteq {p.id : p \in eligible}
       /\ Len(board.pitches) <= LeaderLimit
       /\ \A p \in eligible : p.id \notin shown =>
            \A id \in shown : interesting(p.id) <= interesting(id)
       /\ \A k \in DOMAIN board.pitches : \A j \in DOMAIN board.pitches :
            j < k =>
              \/ interesting(board.pitches[j].id) > interesting(board.pitches[k].id)
              \/ /\ interesting(board.pitches[j].id) = interesting(board.pitches[k].id)
                 /\ board.pitches[j].id < board.pitches[k].id

\* the elevator pitch has between 250 and 500 words
InLimits(words) == words >= 250 /\ words <= 500

\* C16: handleSubmit starts only on step 5 of the form and only while the
\* elevator pitch has 250 to 500 words; while it has fewer or more the
\* submit button is disabled, and no step publishes a pitch whose elevator
\* pitch has fewer or more
SubmitOnlyWithinLimits ==
  /\ [](form.pc = "open" /\ form.step = totalSteps
          /\ ~InLimits(form.formData.elevator_pitch)
        => ~ENABLED FormNextStep)
  /\ [][ /\ form.submit = "none" /\ form'.submit # "none"
            => form.step = totalSteps /\ InLimits(form.formData.elevator_pitch)
         /\ \A p \in pitches' :
              p.status = "published" /\ p \notin pitches
                => InLimits(p.elevator_pitch) ]_vars

\* C16 witness: the form has published a pitch of 500 words and also shows
\* the last step with a text of 501 words
PublishedAtUpperLimit ==
  /\ \E p \in pitches :
       p.user_id = Entrepreneur /\ p.status = "published" /\ p.elevator_pitch = 500
  /\ form.pc = "open" /\ form.step = totalSteps
  /\ form.formData.elevator_pitch = 501

\* C12: every vote row that a step adds refers to a pitch that is published
\* when the row is inserted
VoteInsertedOnPublished ==
  [][ \A v \in votes' \ votes :
        \E p \in pitches : p.id = v.pitch_id /\ p.status = "published" ]_vars

\* C17: once a poll of the success screen has observed completed or failed,
\* the screen issues no further status read
NoReadAfterTerminal ==
  [][ screen.pc = "mounted" /\ screen.aiStatus \in TerminalStatuses
        => screen'.issued = screen.issued ]_vars

\* C18: after its initial load the dashboard's effect and interval issue a
\* load only while one of the user's pitches, in the store or in the list
\* the dashboard holds, has the AI status pending or processing
ReloadOnlyWhileProcessing ==
  [][ dash.pc = "mounted" /\ dash'.issued # dash.issued
        => \/ \E p \in pitches :
                /\ p.user_id = Entrepreneur
                /\ p.ai_processing_status \in {"pending", "processing"}
           \/ \E k \in DOMAIN dash.pitches :
                dash.pitches[k].ai_processing_status \in {"pending", "processing"} ]_vars

\* C20: a feedback row, once in the table, is in the table after every step
\* with the same strengths, weaknesses, recommendations and score
FeedbackRowsKept ==
  [][\A f \in ai_feedback : f \in ai_feedback']_vars

\* C20 witness: an invocation for a completed pitch with a feedback row has
\* generated feedback again and its insert was refused; the row is there
FeedbackKeptOnReinvocation ==
  \E i \in Invocations :
    /\ inv[i].startStatus = "completed"
    /\ inv[i].startFeedback
    /\ inv[i].pc = "catch"
    /\ FeedbackRows(inv[i].pitch_id) # {}

\* the invocations of the endpoint that have begun
Begun == {i \in Invocations : inv[i].pc # "idle"}

\* C19: the endpoint has been invoked at most as often as the user has
\* clicked Submit Pitch, Retry AI Analysis or Generate AI Feedback
InvocationsWithinClicks == Cardinality(Begun) <= clicks

\* C19 witness: the click on Retry AI Analysis has led to one invocation,
\* which has answered with an error; the dashboard has handled the answer
\* and goes on loading its list
FailedRetryNotRepeated ==
  /\ clicks = 1
  /\ Cardinality(Begun) = 1
  /\ \E i \in Begun : inv[i].pc = "done" /\ inv[i].response = 500
  /\ form.opened = 0
  /\ detail[Viewer].pc = "unmounted"
  /\ dash.pc = "mounted"
  /\ dash.call = Undefined
  /\ dash.loads > 0

\* C26: a pitch whose AI-processing status is failed has no feedback row
FailedHasNoFeedback ==
  \A r \in pitches :
    r.ai_processing_status = "failed" => FeedbackRows(r.id) = {}

\* the columns of pitches the endpoint writes
AiColumns ==
  { "ai_processing_status", "ai_processing_started_at",
    "ai_processing_completed_at", "ai_processing_error" }

\* the pitch a step of invocation i works for
PitchOf(i) ==
  IF inv[i].pitch_id # Undefined THEN inv[i].pitch_id ELSE inv'[i].pitch_id

OutcomeRecorded ==
  [][\A i \in Invocations :
       /\ inv[i].pc \notin {"idle", "done"}
       /\ inv'[i].pc = "done"
       /\ PitchExists(inv[i].pitch_id)
       => AiStatus(pitches', inv[i].pitch_id) \in {"completed", "failed"}]_vars

\* the five content fields of a pitch (PitchFormData)
ContentFields == DOMAIN EmptyFormData

\* C22: a published pitch stays published and keeps its five content fields
PublishedContentFrozen ==
  [][\A r \in pitches :
       r.status = "published" =>
         \E q \in pitches' :
           /\ q.id = r.id
           /\ q.status = "published"
           /\ \A c \in ContentFields : q[c] = r[c]]_vars

\* C24: the sessions of the form create at most one pitch row each
OneRowPerSession == Cardinality(pitches) <= form.opened

ContentOf(r) == [c \in ContentFields |-> r[c]]

\* the five checks of isStepValid together
AllStepsValid(formData) == \A step \in 1..totalSteps : isStepValid(step, formData)

\* C30: the step of the form is one of 1..5, and every published pitch has
\* five valid fields
StepInRangePublishedValid ==
  /\ form.step \in 1..totalSteps
  /\ \A r \in pitches : r.status = "published" => AllStepsValid(ContentOf(r))

\* the detail view of session s shows the button Generate AI Feedback
GenerateShown(s) ==
  /\ detail[s].pc = "ready"
  /\ detail[s].pitch # NoPitch
  /\ detail[s].pitch.status = "published"
  /\ ~detail[s].pitch.ai_feedback
  /\ ~detail[s].retryingFeedback

\* an invocation for the pitch is in progress and its status is processing
BeingProcessed(pitchId) ==
  /\ PitchExists(pitchId)
  /\ AiStatus(pitches, pitchId) = "processing"
  /\ \E i \in Invocations :
       inv[i].pc \notin {"idle", "done"} /\ inv[i].pitch_id = pitchId

\* C28: no detail view shows the button Generate AI Feedback for a pitch
\* that is being processed
GenerateHiddenWhileProcessing ==
  \A s \in Sessions : GenerateShown(s) => ~BeingProcessed(detail[s].pitchId)

\* the ids of the pitches a feed shows
Shown(f) == {f.pitches[k] : k \in DOMAIN f.pitches}

\* the votes of the store by user uid on pitch pitchId
VotesOf(rows, uid, pitchId) == {v \in rows : v.user_id = uid /\ v.pitch_id = pitchId}

ReferentialIntegrity ==
  /\ \A f \in ai_feedback : PitchExists(f.pitch_id)
  /\ \A v \in votes : PitchExists(v.pitch_id) /\ v.user_id \in profiles
  /\ \A p \in pitches : p.user_id \in profiles

\* C21: the references of the store hold in every state, and the step that
\* deletes a profile removes its pitches, their feedback rows, the votes
\* on them and the votes of the profile, and no other row
ProfileDeletionCascades ==
  /\ []ReferentialIntegrity
  /\ [][\A uid \in profiles \ profiles' :
          LET gone == {p.id : p \in {q \in pitches : q.user_id = uid}}
          IN /\ pitches' = {p \in pitches : p.user_id # uid}
             /\ ai_feedback' = {f \in ai_feedback : f.pitch_id \notin gone}
             /\ votes' = {v \in votes : v.pitch_id \notin gone /\ v.user_id # uid}
             /\ \A p \in pitches' : p.id \notin gone
             /\ \A f \in ai_feedback' : f.pitch_id \notin gone]_vars

\* a user whose vote was inserted, and the owner of the pitch, which had
\* got its feedback, have been deleted: no row is left
DeletedWithPitchFeedbackVotes ==
  /\ profiles = {}
  /\ pitches = {} /\ ai_feedback = {} /\ votes = {}
  /\ \E i \in Invocations : inv[i].pc = "done" /\ inv[i].response = 200
  /\ \E s \in Sessions : feed[s].currentIndex = 1

====
